---- MODULE Spec2Model ----
(***************************************************************************)
(* Model of the ASCII video player (src/ascii_video_player.py): session   *)
(* construction, the playback loop of ASCIIVideoPlayer.play with its      *)
(* event handling, cleanup, the top-level main, and the luminance to      *)
(* glyph-index mapping of frame_to_ascii.                                  *)
(***************************************************************************)
EXTENDS Integers, Sequences, FiniteSets, TLC

\* ------------------------------------------------------------------ bounds
\* largest number of frames a modelled video source holds
MaxFrames == 2
\* largest number of events waiting in the pygame event queue
MaxQueue == 2

\* --------------------------------------------------------- program constants
\* ASCII_CHARS, 12 glyphs from dark to bright; a glyph is written as its
\* character code (32 is the blank, 64 is @)
ASCII_CHARS ==
  << 32, 46, 39, 58, 33, 42, 111, 101, 38, 35,
     37, 64 >>

\* ASCII_CHARS_EXTENDED, 70 glyphs from dark to bright (32 blank .. 36 $)
ASCII_CHARS_EXTENDED ==
  << 32, 46, 39, 96, 94, 34, 44, 58, 59, 73,
     108, 33, 105, 62, 60, 126, 43, 95, 45, 63,
     93, 91, 125, 123, 49, 41, 40, 124, 92, 47,
     116, 102, 106, 114, 120, 110, 117, 118, 99, 122,
     88, 89, 85, 74, 67, 76, 81, 48, 79, 90,
     109, 119, 113, 112, 100, 98, 107, 104, 97, 111,
     42, 35, 77, 87, 38, 56, 37, 66, 64, 36 >>

\* largest value of an 8-bit grayscale pixel (pixel_value / 255.0)
MaxPixel == 255
\* self.preview_width
preview_width == 240
\* pixel width of the reference glyph W and the font height, as measured
\* by the font of size 10
char_width == 6
char_height == 12
\* margin added to the ASCII area to obtain the window size
Margin == 20
\* frame_delay fallback when the source reports no frame rate
DefaultDelay == 30

\* ------------------------------------------------------------------ inputs
\* grid widths given on the command line (default 120 is not needed: any
\* positive width behaves alike)
ArgWidths == {-4, 0, 8}
\* --height: absent (<<>>, the grid height is derived) or a value
ArgHeights == {<< >>, <<0>>}
\* resolutions and frame rates a video source may report
SrcWidths == {0, 4}
SrcHeights == {0, 2}
SrcFps == {0, 25}

\* pygame events: window close, and the keys of KEYDOWN events.  K_ESCAPE
\* stands for K_q as well (one condition of the handler covers both); K_a
\* stands for every key without a binding.
Events == {"QUIT", "K_ESCAPE", "K_SPACE", "K_r", "K_p", "K_a"}

VARIABLES
  args,          \* command line: [width, height, show_preview]
  src,           \* the video file: [opens, width, height, fps, frames]
  pc,            \* position of the program
  self,          \* fields of the player fixed by __init__
  show_preview,  \* self.show_preview
  running,       \* self.running
  paused,        \* local variable paused of play()
  frame_delay,   \* local variable frame_delay of play()
  capOpen,       \* self.cap holds an opened video
  capPos,        \* CAP_PROP_POS_FRAMES of self.cap
  pygameInit,    \* pygame is initialised (window and fonts exist)
  queue,         \* the pygame event queue
  batch,         \* events returned by pygame.event.get(), not yet handled
  tickArg,       \* argument of the last self.clock.tick call, -1 if none
  error,         \* the exception being propagated, "" if none
  exitCode,      \* process exit status, -1 while running
  cleanupCount,  \* number of calls of cleanup()
  lastFrame,     \* index of the frame returned by the last successful read
  restartPending,\* a restart was applied and no frame was read since
  cycle,         \* what the current loop iteration did
  chars,         \* self.chars
  pixel_value,   \* frame_to_ascii: the pixel being converted, -1 if none
  raw_index,     \* frame_to_ascii: char_index before it is clamped
  char_index,    \* frame_to_ascii: its character index
  glyph,         \* frame_to_ascii: the character appended to ascii_frame
  use_color,     \* self.use_color
  drawn_index,   \* draw_ascii_frame: self.chars.index(char), -1 if none
  gray_val       \* draw_ascii_frame: gray_val of the cell, -1 if none

playerVars == << self, show_preview, running, paused, frame_delay, capOpen,
                 capPos, pygameInit, tickArg, cleanupCount >>
traceVars == << lastFrame, restartPending, cycle >>
glyphVars == << chars, pixel_value, raw_index, char_index,
               glyph, use_color, drawn_index, gray_val >>
vars == << args, src, pc, playerVars, queue, batch, error, exitCode,
           traceVars, glyphVars >>

\* ----------------------------------------------------------------- helpers
\* int(x) of Python truncates toward zero; a / b for b > 0
TruncDiv(a, b) == IF a >= 0 THEN a \div b ELSE -((-a) \div b)

\* int(self.ascii_width / video_aspect * 0.5) with video_aspect = W / H
AutoHeight(aw, W, H) == TruncDiv(aw * H, 2 * W)

\* int(self.preview_width * self.original_height / self.original_width)
PreviewHeight(W, H) == TruncDiv(preview_width * H, W)

\* cv2.resize(frame, (dw, dh)) raises cv2.error on an empty source frame or
\* a target size that is not positive in both directions
ResizeFails(W, H, dw, dh) == W <= 0 \/ H <= 0 \/ dw <= 0 \/ dh <= 0

\* pygame.display.set_mode raises pygame.error on a negative size
SetModeFails(w, h) == w < 0 \/ h < 0

\* frame_delay = int(1000 / self.fps) if self.fps > 0 else 30
FrameDelay(fps) == IF fps > 0 THEN 1000 \div fps ELSE DefaultDelay

\* self.clock.tick(framerate): the frame interval in ms the call enforces by
\* blocking; pygame delays only for a framerate that is not 0 and never for
\* a negative time, so a framerate <= 0 enforces no interval
TickInterval(framerate) == IF framerate > 0 THEN 1000 \div framerate ELSE 0

NoPlayer == [ascii_width |-> 0, ascii_height |-> 0, fps |-> 0,
             frame_count |-> 0, original_width |-> 0, original_height |-> 0,
             preview_height |-> 0, screen_width |-> 0, screen_height |-> 0]

\* what a loop iteration did so far: a quit was applied, the state in which
\* the last restart was applied ("" if none), a frame was read, the read met
\* the end of the stream, the frame was converted, the preview was drawn, the
\* paused branch ran
NoCycle == [quit |-> FALSE, restart |-> "", read |-> FALSE, eos |-> FALSE,
            converted |-> FALSE, preview |-> FALSE, paused |-> FALSE]

\* the playback state of the specification, from the two flags of play()
PlaybackState ==
  IF ~running THEN "Stopped" ELSE IF paused THEN "Paused" ELSE "Playing"

\* positions at which play() is executing its loop
InLoop == pc \in {"loop", "poll", "events"}

\* ------------------------------------------------------- frame_to_ascii
Min(a, b) == IF a <= b THEN a ELSE b
Max(a, b) == IF a >= b THEN a ELSE b

\* int(normalized ** 0.5 * m) for normalized = v / 255.0: the largest k with
\* k <= sqrt(v / 255) * m, i.e. 255 * k^2 <= v * m^2
ScaledRoot(v, m) ==
  CHOOSE k \in 0..(m + 1) :
    /\ MaxPixel * k * k <= v * m * m
    /\ MaxPixel * (k + 1) * (k + 1) > v * m * m

\* a scale factor of len(self.chars) instead of len(self.chars) - 1
RawCharIndex_Len(v, L) == ScaledRoot(v, L)

\* char_index = int(normalized ** 0.5 * (len(self.chars) - 1))
RawCharIndex(v, L) == ScaledRoot(v, L - 1)

\* the ramp read from bright to dark
CharIndex_Reversed(raw, L) == (L - 1) - Min(Max(raw, 0), L - 1)

\* char_index = min(max(char_index, 0), len(self.chars) - 1)
CharIndex(raw, L) == Min(Max(raw, 0), L - 1)

\* ------------------------------------------------------------------- Init
\* the program is started on some video file with some command line
InitInputs ==
  /\ args \in [width : ArgWidths, height : ArgHeights, show_preview : BOOLEAN]
  /\ src \in [opens : BOOLEAN, width : SrcWidths, height : SrcHeights,
              fps : SrcFps, frames : 0..MaxFrames]

InitPlayer ==
  /\ self = NoPlayer
  /\ show_preview = FALSE
  /\ running = FALSE
  /\ paused = FALSE
  /\ frame_delay = 0
  /\ capOpen = FALSE
  /\ capPos = 0
  /\ pygameInit = FALSE
  /\ tickArg = -1
  /\ cleanupCount = 0
  /\ queue = << >>
  /\ batch = << >>
  /\ error = ""
  /\ exitCode = -1
  /\ lastFrame = -1
  /\ restartPending = FALSE
  /\ cycle = NoCycle

InitGlyph ==
  /\ pixel_value = -1
  /\ raw_index = 0
  /\ char_index = 0
  /\ glyph = 0
  /\ drawn_index = -1
  /\ gray_val = -1

Init ==
  /\ InitInputs
  /\ InitPlayer
  /\ InitGlyph
  /\ chars = ASCII_CHARS
  /\ use_color = TRUE
  /\ pc = "main"

\* ------------------------------------------------------------- __init__
\* the exception __init__ raises on the given inputs, "" if it returns
ConstructError ==
  IF ~src.opens THEN "ValueError"
  ELSE IF args.height = << >> /\ (src.height = 0 \/ src.width = 0)
    THEN "ZeroDivisionError"
  ELSE IF src.width = 0 THEN "ZeroDivisionError"
  ELSE LET ah == IF args.height = << >>
                   THEN AutoHeight(args.width, src.width, src.height)
                   ELSE args.height[1]
       IN IF SetModeFails(args.width * char_width + Margin,
                          ah * char_height + Margin)
            THEN "pygame.error" ELSE ""

\* pygame.init() has run when __init__ raises ConstructError
InitReachedPygame ==
  /\ src.opens
  /\ ~(args.height = << >> /\ (src.height = 0 \/ src.width = 0))

\* player = ASCIIVideoPlayer(...)
Construct ==
  /\ pc = "main"
  /\ capOpen' = src.opens
  /\ pygameInit' = InitReachedPygame
  /\ IF ConstructError # ""
       THEN /\ error' = ConstructError
            /\ pc' = "raised"
            /\ UNCHANGED << self, show_preview >>
       ELSE LET ah == IF args.height = << >>
                        THEN AutoHeight(args.width, src.width, src.height)
                        ELSE args.height[1]
            IN /\ self' = [ascii_width |-> args.width,
                           ascii_height |-> ah,
                           fps |-> src.fps,
                           frame_count |-> src.frames,
                           original_width |-> src.width,
                           original_height |-> src.height,
                           preview_height |->
                             PreviewHeight(src.width, src.height),
                           screen_width |-> args.width * char_width + Margin,
                           screen_height |-> ah * char_height + Margin]
               /\ show_preview' = args.show_preview
               /\ pc' = "constructed"
               /\ UNCHANGED error
  /\ running' = FALSE
  /\ UNCHANGED << args, src, paused, frame_delay, capPos, tickArg,
                  cleanupCount, queue, batch, exitCode, traceVars, glyphVars >>

\* except Exception as e: print(...); sys.exit(1)
MainExcept ==
  /\ pc = "raised"
  /\ pc' = "exited"
  /\ exitCode' = 1
  /\ UNCHANGED << args, src, playerVars, queue, batch, error, traceVars,
                  glyphVars >>

\* main returns after player.play() has returned
MainReturn ==
  /\ pc = "returned"
  /\ pc' = "exited"
  /\ exitCode' = 0
  /\ UNCHANGED << args, src, playerVars, queue, batch, error, traceVars,
                  glyphVars >>

\* ------------------------------------------------------------------ play
\* self.running = True; frame_delay = ...; paused = False
PlayStart ==
  /\ pc = "constructed"
  /\ running' = TRUE
  /\ frame_delay' = FrameDelay(self.fps)
  /\ paused' = FALSE
  /\ pc' = "loop"
  /\ UNCHANGED << args, src, self, show_preview, capOpen, capPos, pygameInit,
                  tickArg, cleanupCount, queue, batch, error, exitCode,
                  traceVars, glyphVars >>

\* the user closes the window or presses a key: pygame queues the event.
\* The program looks at the queue only in pygame.event.get(), so an event
\* that arrives during an iteration is queued here, before the next get.
UserInput ==
  /\ pygameInit
  /\ pc = "loop"
  /\ Len(queue) < MaxQueue
  /\ \E e \in Events : queue' = Append(queue, e)
  /\ UNCHANGED << args, src, pc, playerVars, batch, error, exitCode,
                  traceVars, glyphVars >>

\* while self.running: ... pygame.event.get() takes every queued event
PollEvents ==
  /\ pc = "loop"
  /\ running
  /\ batch' = queue
  /\ queue' = << >>
  /\ cycle' = NoCycle
  /\ pc' = "events"
  /\ UNCHANGED << args, src, playerVars, error, exitCode, lastFrame,
                  restartPending, glyphVars >>

\* the for loop is at an event e
AtEvent(E) == pc = "events" /\ batch # << >> /\ Head(batch) \in E

\* event.type == pygame.QUIT, or K_ESCAPE / K_q: self.running = False
EventQuit ==
  /\ AtEvent({"QUIT", "K_ESCAPE"})
  /\ batch' = Tail(batch)
  /\ running' = FALSE
  /\ cycle' = [cycle EXCEPT !.quit = TRUE]
  /\ UNCHANGED << args, src, pc, self, show_preview, paused, frame_delay,
                  capOpen, capPos, pygameInit, tickArg, cleanupCount, queue,
                  error, exitCode, lastFrame, restartPending, glyphVars >>

\* the key pauses and never resumes
EventSpace_PauseOnly ==
  /\ AtEvent({"K_SPACE"})
  /\ batch' = Tail(batch)
  /\ paused' = TRUE
  /\ UNCHANGED << args, src, pc, self, show_preview, running, frame_delay,
                  capOpen, capPos, pygameInit, tickArg, cleanupCount, queue,
                  error, exitCode, traceVars, glyphVars >>

\* K_SPACE: paused = not paused
EventSpace ==
  /\ AtEvent({"K_SPACE"})
  /\ batch' = Tail(batch)
  /\ paused' = ~paused
  /\ UNCHANGED << args, src, pc, self, show_preview, running, frame_delay,
                  capOpen, capPos, pygameInit, tickArg, cleanupCount, queue,
                  error, exitCode, traceVars, glyphVars >>

\* the restart resumes playback without seeking
EventRestart_NoSeek ==
  /\ AtEvent({"K_r"})
  /\ batch' = Tail(batch)
  /\ paused' = FALSE
  /\ restartPending' = TRUE
  /\ cycle' = [cycle EXCEPT !.restart = PlaybackState]
  /\ UNCHANGED << args, src, pc, self, show_preview, running, frame_delay,
                  capOpen, capPos, pygameInit, tickArg, cleanupCount, queue,
                  error, exitCode, lastFrame, glyphVars >>

\* K_r: self.cap.set(cv2.CAP_PROP_POS_FRAMES, 0); paused = False
EventRestart ==
  /\ AtEvent({"K_r"})
  /\ batch' = Tail(batch)
  /\ capPos' = 0
  /\ paused' = FALSE
  /\ restartPending' = TRUE
  /\ cycle' = [cycle EXCEPT !.restart = PlaybackState]
  /\ UNCHANGED << args, src, pc, self, show_preview, running, frame_delay,
                  capOpen, pygameInit, tickArg, cleanupCount, queue, error,
                  exitCode, lastFrame, glyphVars >>

\* the key switches the preview on and never off
EventPreview_EnableOnly ==
  /\ AtEvent({"K_p"})
  /\ batch' = Tail(batch)
  /\ show_preview' = TRUE
  /\ UNCHANGED << args, src, pc, self, running, paused, frame_delay, capOpen,
                  capPos, pygameInit, tickArg, cleanupCount, queue, error,
                  exitCode, traceVars, glyphVars >>

\* K_p: self.show_preview = not self.show_preview
EventPreview ==
  /\ AtEvent({"K_p"})
  /\ batch' = Tail(batch)
  /\ show_preview' = ~show_preview
  /\ UNCHANGED << args, src, pc, self, running, paused, frame_delay, capOpen,
                  capPos, pygameInit, tickArg, cleanupCount, queue, error,
                  exitCode, traceVars, glyphVars >>

\* any other key: no branch of the handler applies
EventOther ==
  /\ AtEvent({"K_a"})
  /\ batch' = Tail(batch)
  /\ UNCHANGED << args, src, pc, playerVars, queue, error, exitCode,
                  traceVars, glyphVars >>

\* the for loop over the events has ended
EventsDone == pc = "events" /\ batch = << >>

\* the end of the video ends playback instead of looping
ReadEndOfStream_Stop ==
  /\ EventsDone
  /\ ~paused
  /\ capPos >= src.frames
  /\ running' = FALSE
  /\ cycle' = [cycle EXCEPT !.eos = TRUE]
  /\ pc' = "loop"
  /\ UNCHANGED << args, src, self, show_preview, paused, frame_delay, capOpen,
                  capPos, pygameInit, tickArg, cleanupCount, queue, batch,
                  error, exitCode, lastFrame, restartPending, glyphVars >>

\* not paused, self.cap.read() returns ret = False: seek to 0 and continue
ReadEndOfStream ==
  /\ EventsDone
  /\ ~paused
  /\ capPos >= src.frames
  /\ capPos' = 0
  /\ cycle' = [cycle EXCEPT !.eos = TRUE]
  /\ pc' = "loop"
  /\ UNCHANGED << args, src, self, show_preview, running, paused, frame_delay,
                  capOpen, pygameInit, tickArg, cleanupCount, queue, batch,
                  error, exitCode, lastFrame, restartPending, glyphVars >>

\* not paused, self.cap.read() returns a frame: convert, draw, preview,
\* status, flip, tick
RenderFrame ==
  /\ EventsDone
  /\ ~paused
  /\ capPos < src.frames
  /\ capPos' = capPos + 1
  /\ lastFrame' = capPos
  /\ restartPending' = FALSE
  /\ IF ResizeFails(self.original_width, self.original_height,
                    self.ascii_width, self.ascii_height)
       THEN \* frame_to_ascii raises
            /\ cycle' = [cycle EXCEPT !.read = TRUE]
            /\ error' = "cv2.error"
            /\ pc' = "raised"
            /\ UNCHANGED tickArg
       ELSE IF show_preview /\ ResizeFails(self.original_width,
                 self.original_height, preview_width, self.preview_height)
       THEN \* draw_preview raises
            /\ cycle' = [cycle EXCEPT !.read = TRUE, !.converted = TRUE]
            /\ error' = "cv2.error"
            /\ pc' = "raised"
            /\ UNCHANGED tickArg
       ELSE /\ cycle' = [cycle EXCEPT !.read = TRUE, !.converted = TRUE,
                                       !.preview = show_preview]
            /\ tickArg' = self.fps
            /\ pc' = "loop"
            /\ UNCHANGED error
  /\ UNCHANGED << args, src, self, show_preview, running, paused, frame_delay,
                  capOpen, pygameInit, cleanupCount, queue, batch, exitCode,
                  glyphVars >>

\* paused: pygame.time.wait(100), draw the PAUSED text, flip
PausedCycle ==
  /\ EventsDone
  /\ paused
  /\ cycle' = [cycle EXCEPT !.paused = TRUE]
  /\ pc' = "loop"
  /\ UNCHANGED << args, src, playerVars, queue, batch, error, exitCode,
                  lastFrame, restartPending, glyphVars >>

\* while self.running is false: the loop ends, self.cleanup() is called
LoopExit ==
  /\ pc = "loop"
  /\ ~running
  /\ pc' = "cleanup"
  /\ UNCHANGED << args, src, playerVars, queue, batch, error, exitCode,
                  traceVars, glyphVars >>

\* cleanup: self.cap.release(); pygame.quit()
Cleanup ==
  /\ pc = "cleanup"
  /\ capOpen' = FALSE
  /\ pygameInit' = FALSE
  /\ cleanupCount' = cleanupCount + 1
  /\ pc' = "returned"
  /\ UNCHANGED << args, src, self, show_preview, running, paused, frame_delay,
                  capPos, tickArg, queue, batch, error, exitCode, traceVars,
                  glyphVars >>

Next ==
  \/ Construct
  \/ MainExcept
  \/ MainReturn
  \/ PlayStart
  \/ UserInput
  \/ PollEvents
  \/ EventQuit
  \/ EventSpace
  \/ EventRestart
  \/ EventPreview
  \/ EventOther
  \/ ReadEndOfStream
  \/ RenderFrame
  \/ PausedCycle
  \/ LoopExit
  \/ Cleanup

Spec == Init /\ [][Next]_vars

\* a step of the program itself: every action but the arrival of an event
ProgramStep ==
  \/ Construct
  \/ MainExcept
  \/ MainReturn
  \/ PlayStart
  \/ PollEvents
  \/ EventQuit
  \/ EventSpace
  \/ EventRestart
  \/ EventPreview
  \/ EventOther
  \/ ReadEndOfStream
  \/ RenderFrame
  \/ PausedCycle
  \/ LoopExit
  \/ Cleanup

\* the single thread of the program keeps running: no call of the loop
\* blocks for ever (read and tick return, the paused branch waits 100 ms),
\* so a program step that stays possible is eventually taken
FairSpec == Spec /\ WF_vars(ProgramStep)

\* ------------------------------------------- frame_to_ascii, pixel by pixel
\* a player with either character set is converting a frame
InitGlyphs ==
  /\ args = [width |-> 8, height |-> << >>, show_preview |-> TRUE]
  /\ src = [opens |-> TRUE, width |-> 4, height |-> 2, fps |-> 25,
            frames |-> MaxFrames]
  /\ InitPlayer
  /\ InitGlyph
  /\ chars \in {ASCII_CHARS, ASCII_CHARS_EXTENDED}
  /\ use_color \in BOOLEAN
  /\ pc = "frame_to_ascii"

\* one iteration of for pixel_value in row, on a pixel of any value
ConvertPixel ==
  /\ pc = "frame_to_ascii"
  /\ \E v \in 0..MaxPixel :
       LET raw == RawCharIndex(v, Len(chars))
           idx == CharIndex(raw, Len(chars))
       IN /\ pixel_value' = v
          /\ raw_index' = raw
          /\ char_index' = idx
          /\ glyph' = IF idx + 1 \in DOMAIN chars THEN chars[idx + 1] ELSE -1
  /\ UNCHANGED << args, src, pc, playerVars, queue, batch, error, exitCode,
                  traceVars, chars, use_color, drawn_index, gray_val >>

\* the position of the character counted from 1
IndexOf_OneBased(s, c) ==
  IF \E i \in 1..Len(s) : s[i] = c
    THEN CHOOSE i \in 1..Len(s) :
           s[i] = c /\ \A j \in 1..(i - 1) : s[j] # c
    ELSE -1

\* self.chars.index(char): the first position of the character, counted from
\* 0; str.index raises ValueError for a character that does not occur, for
\* which -1 stands
IndexOf(s, c) ==
  IF \E i \in 0..(Len(s) - 1) : s[i + 1] = c
    THEN CHOOSE i \in 0..(Len(s) - 1) :
           s[i + 1] = c /\ \A j \in 0..(i - 1) : s[j + 1] # c
    ELSE -1

\* gray_val = int((index / len(self.chars)) * 255)
GrayValue(idx, L) == (idx * MaxPixel) \div L

\* draw_ascii_frame on the cell of the converted pixel: the colour is taken
\* from color_array if use_color, else derived from the position of the
\* character in self.chars
DrawCell ==
  /\ pc = "frame_to_ascii"
  /\ pixel_value >= 0
  /\ pc' = "draw_ascii_frame"
  /\ IF use_color
       THEN UNCHANGED << drawn_index, gray_val >>
       ELSE /\ drawn_index' = IndexOf(chars, glyph)
            /\ gray_val' = GrayValue(IndexOf(chars, glyph), Len(chars))
  /\ UNCHANGED << args, src, playerVars, queue, batch, error, exitCode,
                  traceVars, chars, pixel_value, raw_index, char_index, glyph,
                  use_color >>

NextGlyphs == ConvertPixel \/ DrawCell

SpecGlyphs == InitGlyphs /\ [][NextGlyphs]_vars

\* ================================================================ properties
\* a step that handles an event of the set E
Handles(E) == AtEvent(E)
\* a step in which self.cap.read() returns a frame
ReadsFrame == ~cycle.read /\ cycle'.read
\* a step in which self.cap.read() signals the end of the stream
MeetsEnd == ~cycle.eos /\ cycle'.eos
\* the playback state after the step
PlaybackStateNext ==
  IF ~running' THEN "Stopped" ELSE IF paused' THEN "Paused" ELSE "Playing"

\* C1: a quit event is followed by exactly one cleanup over the run of play():
\* cleanup is never called twice, and a program that has applied a quit and
\* has exited has called cleanup once.
C1_QuitCleansUpExactlyOnce ==
  /\ cleanupCount <= 1
  /\ (pc = "exited" /\ cycle.quit) => cleanupCount = 1

\* C2: a frame is read in a cycle only if the playback state is still Playing
\* after the events of the cycle were applied; no frame is read in a cycle in
\* which a quit was applied.
C2_ReadOnlyIfStillPlaying ==
  cycle.read => (PlaybackState = "Playing" /\ ~cycle.quit)

\* C3: a restart event sets the read cursor to 0 and clears paused, so that a
\* Playing or Paused player is Playing afterwards; the cursor stays at 0 until
\* the next frame is read, and that frame is frame 0.
C3_RestartRewindsAndPlays ==
  [][ /\ Handles({"K_r"}) =>
           /\ capPos' = 0
           /\ paused' = FALSE
           /\ (PlaybackState \in {"Playing", "Paused"}
                 => PlaybackStateNext = "Playing")
      /\ restartPending' => capPos' = 0
      /\ (restartPending /\ ReadsFrame) => lastFrame' = 0 ]_vars

\* C3 witness: a restart was applied to a Paused player and the same cycle
\* went on to read frame 0
C3_Witness ==
  /\ cycle.restart = "Paused"
  /\ cycle.read
  /\ cycle.converted
  /\ pc = "loop"
  /\ lastFrame = 0
  /\ capPos = 1
  /\ src.frames = MaxFrames

\* C4: a read that signals end-of-stream resets the cursor to 0 and changes
\* neither the playback state nor the resources: a Playing player stays
\* Playing and goes on with the next cycle.  The end is signalled exactly
\* when frame_count frames were consumed, and the frame read after the last
\* frame of the video is frame 0.
C4_EndOfStreamLoops ==
  [][ /\ MeetsEnd =>
           /\ capPos = self.frame_count
           /\ capPos' = 0
           /\ running' = running /\ paused' = paused
           /\ cleanupCount' = cleanupCount
           /\ capOpen' = capOpen /\ pygameInit' = pygameInit
           /\ pc' = "loop"
           /\ (PlaybackState = "Playing" => PlaybackStateNext = "Playing")
      /\ (ReadsFrame /\ lastFrame = self.frame_count - 1) => lastFrame' = 0
    ]_vars

\* C4 witness: a Playing player has read the last frame of a video of
\* MaxFrames frames, met the end of the stream and is back at cursor 0
C4_Witness ==
  /\ cycle.eos
  /\ pc = "loop"
  /\ PlaybackState = "Playing"
  /\ src.frames = MaxFrames
  /\ lastFrame = MaxFrames - 1
  /\ capPos = 0
  /\ cleanupCount = 0

\* C5: a pause-toggle event turns Playing into Paused and Paused into
\* Playing; a cycle that is paused after its events reads no frame, converts
\* nothing and draws no preview; the cursor moves only in a restart or in the
\* body of a cycle that is not paused.
C5_PauseSuspendsReading ==
  [][ /\ Handles({"K_SPACE"}) =>
           /\ paused' = ~paused
           /\ running' = running
           /\ (PlaybackState = "Playing" => PlaybackStateNext = "Paused")
           /\ (PlaybackState = "Paused" => PlaybackStateNext = "Playing")
      /\ (EventsDone /\ paused) =>
           /\ capPos' = capPos
           /\ lastFrame' = lastFrame
           /\ ~cycle'.read /\ ~cycle'.eos
           /\ ~cycle'.converted /\ ~cycle'.preview
           /\ cycle'.paused
      /\ capPos' # capPos => (Handles({"K_r"}) \/ (EventsDone /\ ~paused))
    ]_vars

\* C5 witness: the paused branch ran in the middle of the video, in a cycle
\* whose events did not restart
C5_Witness ==
  /\ cycle.paused
  /\ cycle.restart = ""
  /\ pc = "loop"
  /\ PlaybackState = "Paused"
  /\ lastFrame = 0
  /\ capPos = 1

\* C6: a preview-toggle event negates show_preview and changes neither
\* running, paused nor the read cursor.
C6_PreviewToggleOnlyFlipsFlag ==
  [][ Handles({"K_p"}) =>
        /\ show_preview' = ~show_preview
        /\ running' = running
        /\ paused' = paused
        /\ PlaybackStateNext = PlaybackState
        /\ capPos' = capPos ]_vars

\* C6 witness: a session started with the preview disabled has it enabled,
\* toggled while Paused in the middle of the video
C6_Witness ==
  /\ ~args.show_preview
  /\ show_preview
  /\ pc = "events"
  /\ PlaybackState = "Paused"
  /\ capPos = 1

\* the grid width or the source resolution is degenerate
DegenerateConfig == args.width <= 0 \/ src.width <= 0 \/ src.height <= 0

\* C7: with a grid width <= 0 or a source width or height <= 0 construction
\* fails before any playback cycle runs: the program never holds a
\* constructed player and never reads a frame.
C7_DegenerateConfigRejected ==
  DegenerateConfig =>
    /\ pc \in {"main", "raised", "exited"}
    /\ self = NoPlayer
    /\ lastFrame = -1

\* C8: when the program has exited on a failure to open the video or on an
\* exception raised in a playback cycle, the exit code is not 0 and the video
\* source and pygame are released.
C8_FatalErrorReleasesResources ==
  (pc = "exited" /\ error \in {"ValueError", "cv2.error"}) =>
    /\ exitCode # 0
    /\ ~capOpen
    /\ ~pygameInit

\* C9: for every pixel value and either character set the index computed
\* from the luminance is within 0 .. len(chars) - 1 before it is clamped, the
\* clamp leaves it as it is, and the character lookup is in range.
C9_CharIndexInRange ==
  pixel_value >= 0 =>
    /\ raw_index \in 0..(Len(chars) - 1)
    /\ char_index = raw_index
    /\ char_index + 1 \in DOMAIN chars
    /\ glyph = chars[char_index + 1]

\* C9 witness: the brightest pixel was converted with the extended set
C9_Witness ==
  /\ chars = ASCII_CHARS_EXTENDED
  /\ pixel_value = MaxPixel
  /\ raw_index = 69

\* C10: the character index does not decrease with the luminance: every
\* darker pixel value maps to an index that is not larger than the index of
\* the converted pixel; value 0 maps to index 0 and value 255 to the last
\* index.
C10_CharIndexMonotonic ==
  pixel_value >= 0 =>
    /\ \A u \in 0..pixel_value :
         CharIndex(RawCharIndex(u, Len(chars)), Len(chars)) <= char_index
    /\ (pixel_value = 0 => char_index = 0)
    /\ (pixel_value = MaxPixel => char_index = Len(chars) - 1)

\* C10 witness: a mid-tone was converted with the standard set; the square
\* root puts value 128 at index 7 of 0..11
C10_Witness ==
  /\ chars = ASCII_CHARS
  /\ pixel_value = 128
  /\ char_index = 7

\* C11: in monochrome mode the index the compositor recovers from the drawn
\* character (its first position in the active set) is the index the
\* luminance produced, for both character sets, and the drawn gray value is
\* floor(index * 255 / len(chars)).
C11_DrawnIndexIsCharIndex ==
  (pc = "draw_ascii_frame" /\ ~use_color) =>
    /\ drawn_index = char_index
    /\ chars[drawn_index + 1] = glyph
    /\ gray_val = (char_index * 255) \div Len(chars)

\* C11 witness: a monochrome player with the extended set has drawn the cell
\* of the brightest pixel: index 69 of 70, gray 251
C11_Witness ==
  /\ pc = "draw_ascii_frame"
  /\ ~use_color
  /\ chars = ASCII_CHARS_EXTENDED
  /\ pixel_value = MaxPixel
  /\ drawn_index = 69
  /\ gray_val = 251

\* C12: a Playing cycle that has presented its frame was paced to the target
\* interval: 1000 / fps ms for a source frame rate fps > 0 and the 30 ms
\* fallback for fps <= 0, so that no such cycle is left unpaced.
C12_CyclePacedToTargetInterval ==
  (pc = "loop" /\ cycle.converted) =>
    /\ TickInterval(tickArg) =
         (IF self.fps > 0 THEN 1000 \div self.fps ELSE 30)
    /\ TickInterval(tickArg) > 0

\* a quit event (window close, escape or q) waits in the event queue
QuitQueued == \E i \in 1..Len(queue) : queue[i] \in {"QUIT", "K_ESCAPE"}

\* the grid and the source resolution of the player let cv2.resize succeed
RenderableConfig ==
  /\ ~ResizeFails(self.original_width, self.original_height,
                  self.ascii_width, self.ascii_height)
  /\ ~ResizeFails(self.original_width, self.original_height,
                  preview_width, self.preview_height)

\* C13: under weak fairness of the playback loop every quit event placed in
\* the event queue is eventually followed by the exit of the loop and by
\* cleanup, whatever the state: Playing, Paused, or a source whose every read
\* signals the end of the stream.
C13_QuitLeadsToCleanup ==
  QuitQueued ~> (pc \in {"returned", "exited"} /\ cleanupCount = 1)

\* the same for the sessions in which no cycle can raise
C13_QuitLeadsToCleanupIfRenderable ==
  (QuitQueued /\ RenderableConfig)
    ~> (pc \in {"returned", "exited"} /\ cleanupCount = 1)
====
